---- MODULE Spec2Model ----
(***************************************************************************)
(* Model of the target-selection pipeline of streamline's radare2 backend  *)
(* (src/src/analyzer/backend/radare2.rs) and of its caller (src/src/main.rs)*)
(*                                                                         *)
(* Strings that the code takes apart (function names, keys of the          *)
(* sensitive-function table) are sequences of one-character strings.       *)
(* An f64 is either a rational [k |-> "num", n, d] (value n/d, d > 0) or a *)
(* NaN [k |-> "nan", neg] with its sign bit; the values that occur within  *)
(* the bounds are far from the limits of f64 precision, so rational        *)
(* arithmetic orders them as the hardware does.                            *)
(***************************************************************************)
EXTENDS Integers, Sequences, FiniteSets, TLC

\* ---------------------------------------------------------------- bounds
MaxAddr == 2
MaxFuncs == 2
MaxRefs == 2
MaxOps == 1

\* ------------------------------------------------- input alphabets (feed)
Addr == 1..MaxAddr
Names == { <<"l", ".", "m">>, <<"m", ".", "s">> }
Sizes == { 4 }
CCs == { 0, 1, 4, 8 }
RefTypes == { "CALL", "DATA" }
OpTypes == { "load", "store", "add" }

RECURSIVE SeqsUpTo(_, _)
SeqsUpTo(S, n) ==
    IF n = 0 THEN { <<>> }
    ELSE LET shorter == SeqsUpTo(S, n - 1)
         IN  shorter \cup { Append(s, x) : s \in shorter, x \in S }

JSONFunctionReference == [type : RefTypes, to : Addr]
JSONOperation == [addr : {0}, type : OpTypes]

\* One entry of the `aflj` listing together with the engine's answers to the
\* `afxj` (refs) and `aOj` (ops) queries made for it.
JSONFunctionData ==
    [name : Names, offset : Addr, size : Sizes, cc : CCs,
     refs : SeqsUpTo(JSONFunctionReference, MaxRefs),
     ops : SeqsUpTo(JSONOperation, MaxOps)]

\* The entries of a listing of several functions are drawn from a smaller
\* alphabet: one name, two complexities, calls only, two operation types.
JSONFunctionDataOfMany ==
    [name : { <<"l", ".", "m">> }, offset : Addr, size : Sizes, cc : { 1, 4 },
     refs : SeqsUpTo([type : {"CALL"}, to : Addr], MaxRefs),
     ops : SeqsUpTo([addr : {0}, type : {"load", "add"}], MaxOps)]

RECURSIVE SumLen(_, _)
SumLen(f, i) == IF i = 0 THEN 0 ELSE Len(f[i].refs) + SumLen(f, i - 1)

\* radare2 lists a function once: the offsets of a listing are distinct.  A
\* listing of several functions has at most MaxRefs references overall.
IsFeed(f) ==
    /\ \A i, j \in DOMAIN f : i # j => f[i].offset # f[j].offset
    /\ Len(f) > 1 => SumLen(f, Len(f)) <= MaxRefs

\* Weight tables as parsed from the YAML file: name fragment -> weight.
Tables ==
    { [k \in { <<"m">> } |-> 5],
      [k \in { <<>>, <<"m">> } |-> IF k = <<>> THEN 2 ELSE 5] }

\* ------------------------------------------------------------------ f64
Num(n, d) == [k |-> "num", n |-> n, d |-> d]
NaN(neg) == [k |-> "nan", neg |-> neg]
IsNaN(x) == x.k = "nan"

f64_add(x, y) ==
    IF IsNaN(x) THEN x
    ELSE IF IsNaN(y) THEN y
    ELSE Num(x.n * y.d + y.n * x.d, x.d * y.d)

\* `x > 0.0`: false for NaN.
f64_gt_zero(x) == ~IsNaN(x) /\ x.n > 0

\* f64::total_cmp: -NaN < every number < +NaN; returns -1, 0 or 1.
total_cmp(x, y) ==
    LET rank(v) == IF IsNaN(v) THEN (IF v.neg THEN 0 ELSE 2) ELSE 1
    IN  IF rank(x) < rank(y) THEN -1
        ELSE IF rank(x) > rank(y) THEN 1
        ELSE IF IsNaN(x) THEN 0
        ELSE IF x.n * y.d < y.n * x.d THEN -1
        ELSE IF x.n * y.d > y.n * x.d THEN 1
        ELSE 0

\* ----------------------------------------------------------------- state
VARIABLES
    feed,                \* what the external engine answers (fixed per firmware)
    sensitive_functions, \* Radare2AnalyzerBackend.sensitive_functions
    functions,           \* Radare2AnalyzerBackend.functions
    complexity_groups,   \* Radare2AnalyzerBackend.complexity_groups
    result,              \* what the last analyze() returned
    exported,            \* what the last export() returned
    target_file,         \* contents of target_functions.yml
    phase                \* the caller's position

vars == <<feed, sensitive_functions, functions, complexity_groups,
          result, exported, target_file, phase>>

Function_new(offset) ==
    [offset |-> offset, name |-> <<>>, size |-> 0, cc |-> 0,
     calls |-> <<>>, callers |-> <<>>, x_f |-> 0, complex_f |-> 0,
     s_f |-> Num(0, 1), operation_list |-> <<>>, p_f |-> Num(0, 1),
     vulnerability_f |-> Num(0, 1)]

ComplexityGroup_new(complex_f) == [complex_f |-> complex_f, functions |-> <<>>]

\* HashMap::insert / BTreeMap::insert
insert(map, key, value) ==
    [k \in DOMAIN map \cup {key} |-> IF k = key THEN value ELSE map[k]]

EmptyMap == [k \in {} |-> 0]

\* ------------------------------------------------------------ ingestion
\* Lines 179-191: the references of one function, applied to the local map.
RECURSIVE apply_references(_, _, _, _)
apply_references(fs, caller, refs, i) ==
    IF i > Len(refs) THEN fs
    ELSE IF refs[i].type = "CALL"
         THEN LET to == refs[i].to
                  fs1 == IF to \in DOMAIN fs THEN fs
                         ELSE insert(fs, to, Function_new(to))
                  fs2 == [fs1 EXCEPT ![to].callers = Append(@, caller)]
              IN  apply_references(fs2, caller, refs, i + 1)
         ELSE apply_references(fs, caller, refs, i + 1)

\* `calls` of lines 180-183.
RECURSIVE call_targets(_, _)
call_targets(refs, i) ==
    IF i > Len(refs) THEN <<>>
    ELSE IF refs[i].type = "CALL"
         THEN <<refs[i].to>> \o call_targets(refs, i + 1)
         ELSE call_targets(refs, i + 1)

\* One iteration of the loop of lines 159-208.
ingest_one(fs, data) ==
    LET fs1 == IF data.offset \in DOMAIN fs THEN fs
               ELSE insert(fs, data.offset, Function_new(data.offset))
        fs2 == apply_references(fs1, data.offset, data.refs, 1)
    IN  [fs2 EXCEPT ![data.offset] =
            [@ EXCEPT !.name = data.name,
                      !.size = data.size,
                      !.cc = data.cc,
                      !.calls = @ \o call_targets(data.refs, 1),
                      !.operation_list = @ \o data.ops]]

\* The local `functions` after the first n entries of the listing.
RECURSIVE ingest(_, _)
ingest(json_function_data, n) ==
    IF n = 0 THEN EmptyMap
    ELSE ingest_one(ingest(json_function_data, n - 1), json_function_data[n])

\* The exchanges with the engine, in the order set_functions makes them.
RECURSIVE exchanges_of(_, _)
exchanges_of(json_function_data, i) ==
    IF i > Len(json_function_data) THEN <<>>
    ELSE << [cmd |-> "s", fn |-> i], [cmd |-> "afxj", fn |-> i],
            [cmd |-> "aOj", fn |-> i] >>
         \o exchanges_of(json_function_data, i + 1)

exchanges == << [cmd |-> "aaa", fn |-> 0], [cmd |-> "aflj", fn |-> 0] >>
             \o exchanges_of(feed, 1)

\* A fault: exchange number `at` fails (0: none), either the command itself
\* ("cmd") or the parsing of its output ("parse").
Faults ==
    { [at |-> 0, how |-> "cmd"] } \cup
    { f \in [at : 1..Len(exchanges), how : {"cmd", "parse"}] :
        f.how = "parse" => exchanges[f.at].cmd \in {"aflj", "afxj", "aOj"} }

\* A set_functions that fills self.functions in place: a failure leaves the
\* functions listed before the failing one in the store.
set_functions_in_place(fault) ==
    IF fault.at = 0
    THEN [res |-> "ok", functions |-> ingest(feed, Len(feed))]
    ELSE [res |-> "err",
          functions |-> IF exchanges[fault.at].fn = 0 THEN functions
                        ELSE ingest(feed, exchanges[fault.at].fn - 1)]

\* set_functions: [res, functions] - what it returns and what self.functions
\* is afterwards.  The map is built in a local and stored by line 209 only.
\* Every failure is Err(cause); the cause string is not kept, "err" stands
\* for all of them.
set_functions(fault) ==
    IF fault.at = 0
    THEN [res |-> "ok", functions |-> ingest(feed, Len(feed))]
    ELSE [res |-> "err", functions |-> functions]

\* --------------------------------------------------- complexity grouping
\* A call-in count that counts each caller once.
calculate_reference_relationship_distinct(fs) ==
    [a \in DOMAIN fs |->
        [fs[a] EXCEPT !.x_f =
            Cardinality({ fs[a].callers[i] : i \in DOMAIN fs[a].callers })]]

calculate_reference_relationship(fs) ==
    [a \in DOMAIN fs |-> [fs[a] EXCEPT !.x_f = Len(fs[a].callers)]]

\* Least integers that are >= e^1, e^2, e^3, e^4.
EPowCeil == <<3, 8, 21, 55>>

\* A logarithm to base 2 instead of e.
log2_floor(cc) ==
    IF cc = 0 THEN [k |-> "ninf"]
    ELSE Num(Cardinality({ i \in 1..6 : 2 ^ i <= cc }), 1)

\* (cc as f64).ln().floor(): minus infinity for 0.
ln_floor(cc) ==
    IF cc = 0 THEN [k |-> "ninf"]
    ELSE Num(Cardinality({ i \in DOMAIN EPowCeil : EPowCeil[i] <= cc }), 1)

\* `as u64` on an f64: saturating, NaN and everything below 0 become 0.
as_u64(x) ==
    IF x.k = "ninf" \/ x.k = "nan" THEN 0
    ELSE IF x.n < 0 THEN 0
    ELSE x.n \div x.d

calculate_complexity_index(fs) ==
    [a \in DOMAIN fs |->
        [fs[a] EXCEPT !.complex_f = as_u64(ln_floor(fs[a].cc)) + fs[a].x_f]]

\* A grouping without the `complex_f > 0` test.
RECURSIVE group_functions_with_zero(_, _, _)
group_functions_with_zero(fs, order, i) ==
    IF i = 0 THEN EmptyMap
    ELSE LET groups == group_functions_with_zero(fs, order, i - 1)
             function == fs[order[i]]
             g1 == IF function.complex_f \in DOMAIN groups THEN groups
                   ELSE insert(groups, function.complex_f,
                               ComplexityGroup_new(function.complex_f))
         IN  [g1 EXCEPT ![function.complex_f].functions =
                           Append(@, function.offset)]

\* group_functions: `order` is the order in which HashMap::values() yields
\* the records; the BTreeMap is keyed by complexity index.
RECURSIVE group_functions(_, _, _)
group_functions(fs, order, i) ==
    IF i = 0 THEN EmptyMap
    ELSE LET groups == group_functions(fs, order, i - 1)
             function == fs[order[i]]
         IN  IF function.complex_f > 0
             THEN LET g1 == IF function.complex_f \in DOMAIN groups THEN groups
                            ELSE insert(groups, function.complex_f,
                                        ComplexityGroup_new(function.complex_f))
                  IN  [g1 EXCEPT ![function.complex_f].functions =
                                    Append(@, function.offset)]
             ELSE groups

\* --------------------------------------------- vulnerability feature rank
\* str::split("."): the pieces between the separators, at least one.
RECURSIVE split(_, _, _)
split(s, i, piece) ==
    IF i > Len(s) THEN << piece >>
    ELSE IF s[i] = "." THEN << piece >> \o split(s, i + 1, <<>>)
    ELSE split(s, i + 1, Append(piece, s[i]))

\* Iterator::last() of the split: Some(piece) as <<piece>>, None as <<>>.
last(pieces) == IF pieces = <<>> THEN <<>> ELSE << pieces[Len(pieces)] >>

\* Lines 252-270 for one function.
RECURSIVE sensitivity(_, _, _, _)
sensitivity(fs, table, function, i) ==
    IF i = 0 THEN Num(0, 1)
    ELSE LET s_f == sensitivity(fs, table, function, i - 1)
             call == function.calls[i]
         IN  IF call \notin DOMAIN fs THEN s_f
             ELSE LET l == last(split(fs[call].name, 1, <<>>))
                      function_name == IF l # <<>> THEN l[1] ELSE function.name
                  IN  IF function_name \in DOMAIN table
                      THEN f64_add(s_f, Num(table[function_name], 1))
                      ELSE s_f

calculate_sensitivity_function_call_index(fs, table) ==
    [a \in DOMAIN fs |->
        [fs[a] EXCEPT !.s_f = sensitivity(fs, table, fs[a], Len(fs[a].calls))]]

memory_operation_types == { "load", "store" }

\* A memory density that is 0 for a function without operations.
calculate_memory_operation_count_or_zero(fs, nan_neg) ==
    [a \in DOMAIN fs |->
        LET ops == fs[a].operation_list
            memory_operation_count ==
                Cardinality({ i \in DOMAIN ops :
                                ops[i].type \in memory_operation_types })
        IN  [fs[a] EXCEPT !.p_f =
                IF Len(ops) = 0 THEN Num(0, 1)
                ELSE Num(memory_operation_count, Len(ops))]]

\* 0.0 / 0.0 is a NaN whose sign bit depends on the target; nan_neg[a] is the
\* sign bit the division produces for function a.
calculate_memory_operation_count(fs, nan_neg) ==
    [a \in DOMAIN fs |->
        LET ops == fs[a].operation_list
            memory_operation_count ==
                Cardinality({ i \in DOMAIN ops :
                                ops[i].type \in memory_operation_types })
        IN  [fs[a] EXCEPT !.p_f =
                IF Len(ops) = 0 THEN NaN(nan_neg[a])
                ELSE Num(memory_operation_count, Len(ops))]]

calculate_vulnerability_feature_index(fs) ==
    [a \in DOMAIN fs |->
        [fs[a] EXCEPT !.vulnerability_f = f64_add(fs[a].s_f, fs[a].p_f)]]

\* A comparator with its operands the other way round (ascending).
rank_cmp_ascending(fs, a, b) ==
    LET vulnerybility_f_a == IF a \in DOMAIN fs THEN fs[a].vulnerability_f
                             ELSE Num(0, 1)
        vulnerybility_f_b == IF b \in DOMAIN fs THEN fs[b].vulnerability_f
                             ELSE Num(0, 1)
    IN  total_cmp(vulnerybility_f_a, vulnerybility_f_b)

\* The comparator of lines 310-320.
rank_cmp(fs, a, b) ==
    LET vulnerybility_f_a == IF a \in DOMAIN fs THEN fs[a].vulnerability_f
                             ELSE Num(0, 1)
        vulnerybility_f_b == IF b \in DOMAIN fs THEN fs[b].vulnerability_f
                             ELSE Num(0, 1)
    IN  total_cmp(vulnerybility_f_b, vulnerybility_f_a)

\* slice::sort_by is stable: x goes behind everything that does not compare
\* greater than it.
RECURSIVE sort_insert(_, _, _)
sort_insert(fs, sorted, x) ==
    IF sorted = <<>> THEN << x >>
    ELSE LET n == Len(sorted)
         IN  IF rank_cmp(fs, sorted[n], x) <= 0 THEN Append(sorted, x)
             ELSE Append(sort_insert(fs, SubSeq(sorted, 1, n - 1), x), sorted[n])

RECURSIVE sort_by(_, _, _)
sort_by(fs, s, i) ==
    IF i = 0 THEN <<>>
    ELSE sort_insert(fs, sort_by(fs, s, i - 1), s[i])

rank_functions(fs, groups) ==
    [c \in DOMAIN groups |->
        [groups[c] EXCEPT !.functions = sort_by(fs, @, Len(@))]]

\* ----------------------------------------------------------------- export
TargetFunction_new(address, name, complexity, vulnerability) ==
    [address |-> address, name |-> name, complexity |-> complexity,
     vulnerability |-> vulnerability]

\* The keys of a BTreeMap in iteration order.
RECURSIVE ascending(_)
ascending(S) ==
    IF S = {} THEN <<>>
    ELSE LET m == CHOOSE x \in S : \A y \in S : x <= y
         IN  << m >> \o ascending(S \ {m})

\* An inner loop without the `break`: every member with a score > 0.0.
RECURSIVE first_target_no_break(_, _, _)
first_target_no_break(fs, members, i) ==
    IF i > Len(members) THEN <<>>
    ELSE IF members[i] \notin DOMAIN fs
         THEN first_target_no_break(fs, members, i + 1)
    ELSE LET function == fs[members[i]]
         IN  IF f64_gt_zero(function.vulnerability_f)
             THEN << TargetFunction_new(function.offset, function.name,
                                        function.complex_f,
                                        function.vulnerability_f) >>
                  \o first_target_no_break(fs, members, i + 1)
             ELSE first_target_no_break(fs, members, i + 1)

\* The inner loop of export: the first member with a score > 0.0, if any.
RECURSIVE first_target(_, _, _)
first_target(fs, members, i) ==
    IF i > Len(members) THEN <<>>
    ELSE IF members[i] \notin DOMAIN fs THEN first_target(fs, members, i + 1)
    ELSE LET function == fs[members[i]]
         IN  IF f64_gt_zero(function.vulnerability_f)
             THEN << TargetFunction_new(function.offset, function.name,
                                        function.complex_f,
                                        function.vulnerability_f) >>
             ELSE first_target(fs, members, i + 1)

RECURSIVE export_groups(_, _, _, _)
export_groups(fs, groups, keys, i) ==
    IF i > Len(keys) THEN <<>>
    ELSE first_target(fs, groups[keys[i]].functions, 1)
         \o export_groups(fs, groups, keys, i + 1)

export == export_groups(functions, complexity_groups,
                        ascending(DOMAIN complexity_groups), 1)

\* ---------------------------------------------------------------- actions
RECURSIVE Perms(_)
Perms(S) ==
    IF S = {} THEN { <<>> }
    ELSE UNION { { << x >> \o p : p \in Perms(S \ {x}) } : x \in S }

Init ==
    /\ \/ feed = <<>>
       \/ feed \in [1..1 -> JSONFunctionData]
       \/ \E n \in 2..MaxFuncs : feed \in [1..n -> JSONFunctionDataOfMany]
    /\ IsFeed(feed)
    /\ sensitive_functions \in Tables
    /\ functions = EmptyMap
    /\ complexity_groups = EmptyMap
    /\ result = "none"
    /\ exported = <<>>
    /\ target_file = <<>>
    /\ phase = "built"

\* Radare2AnalyzerBackend::build on the same firmware and table: a fresh
\* backend in a new run of the program.
Build ==
    /\ phase # "built"
    /\ functions' = EmptyMap
    /\ complexity_groups' = EmptyMap
    /\ result' = "none"
    /\ exported' = <<>>
    /\ phase' = "built"
    /\ UNCHANGED <<feed, sensitive_functions, target_file>>

\* analyze() with the stages it calls.
analyze(fault, order, nan_neg) ==
    LET ingested == set_functions(fault)
    IN  IF ingested.res # "ok"
        THEN [res |-> ingested.res, functions |-> ingested.functions,
              complexity_groups |-> complexity_groups]
        ELSE LET fs1 == calculate_reference_relationship(ingested.functions)
                 fs2 == calculate_complexity_index(fs1)
                 groups == group_functions(fs2, order, Len(order))
                 fs3 == calculate_sensitivity_function_call_index(
                            fs2, sensitive_functions)
                 fs4 == calculate_memory_operation_count(fs3, nan_neg)
                 fs5 == calculate_vulnerability_feature_index(fs4)
             IN  [res |-> "ok", functions |-> fs5,
                  complexity_groups |-> rank_functions(fs5, groups)]

Analyze ==
    /\ phase # "written"
    /\ \E fault \in Faults :
         LET fs == set_functions(fault).functions
             keys == IF fault.at = 0 THEN DOMAIN fs ELSE {}
             empty == { a \in keys : fs[a].operation_list = <<>> }
         IN  \E order \in Perms(keys) :
               \E nan_neg \in [empty -> BOOLEAN] :
                  LET done == analyze(fault, order, nan_neg)
                  IN  /\ result' = done.res
                      /\ functions' = done.functions
                      /\ complexity_groups' = done.complexity_groups
    /\ phase' = "analyzed"
    /\ UNCHANGED <<feed, sensitive_functions, exported, target_file>>

Export ==
    /\ phase \in {"built", "analyzed"}
    /\ exported' = export
    /\ phase' = "exported"
    /\ UNCHANGED <<feed, sensitive_functions, functions, complexity_groups,
                   result, target_file>>

\* main: after a successful analyze() the exported records are written to
\* target_functions.yml (<<>>: no file).
WriteTargets ==
    /\ phase = "exported"
    /\ result = "ok"
    /\ target_file' = << exported >>
    /\ phase' = "written"
    /\ UNCHANGED <<feed, sensitive_functions, functions, complexity_groups,
                   result, exported>>

Next == Build \/ Analyze \/ Export \/ WriteTargets

Spec == Init /\ [][Next]_vars

\* ================================================================ claims
\* What the claims say, stated from the feed and the table, not from the
\* operators above.

\* x <= y for two numbers (not NaN).
Leq(x, y) == x.n * y.d <= y.n * x.d

Defined(x) == x.k = "num"

\* Number of "CALL" references of the whole feed whose target is a.
RECURSIVE CallEdgesTo(_, _)
CallEdgesTo(a, i) ==
    IF i = 0 THEN 0
    ELSE Cardinality({ j \in DOMAIN feed[i].refs :
                         feed[i].refs[j].type = "CALL" /\ feed[i].refs[j].to = a })
         + CallEdgesTo(a, i - 1)

RECURSIVE SumOver(_, _)
SumOver(f, S) ==
    IF S = {} THEN 0
    ELSE LET x == CHOOSE y \in S : TRUE IN f[x] + SumOver(f, S \ {x})

\* The structural complexity the feed reports for a (0: never listed).
ReportedCC(a) ==
    IF \E i \in DOMAIN feed : feed[i].offset = a
    THEN feed[CHOOSE i \in DOMAIN feed : feed[i].offset = a].cc
    ELSE 0

\* The part of a name after its final '.' (the whole name if there is none).
BareFragment(name) ==
    LET dots == { i \in DOMAIN name : name[i] = "." }
        start == IF dots = {} THEN 0
                 ELSE CHOOSE i \in dots : \A j \in dots : j <= i
    IN  SubSeq(name, start + 1, Len(name))

ExportedAddresses == { exported[i].address : i \in DOMAIN exported }

Members(c) ==
    { complexity_groups[c].functions[i] :
        i \in DOMAIN complexity_groups[c].functions }

\* exported is what export() returns for the store as it is now.
ExportIsCurrent == phase \in {"exported", "written"}

\* C1: the complexity indexes of the records returned by export() are
\* strictly increasing along the sequence, so no two records share one.
C1_ExportStrictlyIncreasing ==
    \A i \in DOMAIN exported : \A j \in DOMAIN exported :
        i < j => exported[i].complexity < exported[j].complexity

C1_Witness ==
    /\ result = "ok"
    /\ phase = "exported"
    /\ Len(exported) >= 2

\* C2: export() emits a record for a complexity group exactly if the group
\* has a member with a defined score > 0, and the record is a member whose
\* score is the greatest defined score of the group.
C2_ExportsGroupMaximum ==
    ExportIsCurrent =>
      \A c \in DOMAIN complexity_groups :
        LET recs == { i \in DOMAIN exported : exported[i].complexity = c }
            positive == { a \in Members(c) :
                            /\ Defined(functions[a].vulnerability_f)
                            /\ functions[a].vulnerability_f.n > 0 }
        IN  /\ (recs # {}) <=> (positive # {})
            /\ \A i \in recs :
                 /\ exported[i].address \in Members(c)
                 /\ exported[i].vulnerability
                      = functions[exported[i].address].vulnerability_f
                 /\ \A b \in Members(c) :
                      Defined(functions[b].vulnerability_f)
                        => Leq(functions[b].vulnerability_f,
                               exported[i].vulnerability)

\* A group whose first member has an undefined score and whose record is a
\* later member that beats another member with a defined score.
C2_Witness ==
    /\ result = "ok"
    /\ phase = "exported"
    /\ \E c \in DOMAIN complexity_groups :
         /\ IsNaN(functions[complexity_groups[c].functions[1]].vulnerability_f)
         /\ \E i \in DOMAIN exported : exported[i].complexity = c

\* C3: a function with complexity index 0 is in the store but in no group
\* and in no exported record; there is no group 0, and every member of a
\* group has the group's key as its complexity index.
C3_IndexZeroExcluded ==
    /\ 0 \notin DOMAIN complexity_groups
    /\ \A c \in DOMAIN complexity_groups :
         /\ complexity_groups[c].complex_f = c
         /\ \A a \in Members(c) :
              a \in DOMAIN functions /\ functions[a].complex_f = c
    /\ \A a \in DOMAIN functions :
         functions[a].complex_f = 0 =>
           /\ \A c \in DOMAIN complexity_groups : a \notin Members(c)
           /\ ExportIsCurrent => a \notin ExportedAddresses

C3_Witness ==
    /\ result = "ok"
    /\ phase = "exported"
    /\ exported # <<>>
    /\ \E a \in DOMAIN functions :
         functions[a].complex_f = 0 /\ f64_gt_zero(functions[a].vulnerability_f)

\* C4: two runs of the pipeline on the same feed and weight table export the
\* same sequence: what this run exports is what an earlier run wrote.
C4_ExportIdempotent ==
    (result = "ok" /\ phase = "exported" /\ target_file # <<>>)
      => target_file[1] = exported

\* C5 as claimed: a failing analyze() leaves store and groups as they were
\* and export() then returns the empty sequence.
C5_FailedAnalyzeExportsNothing ==
    [][(result' = "err" /\ phase' = "analyzed")
         => /\ functions' = functions
            /\ complexity_groups' = complexity_groups
            /\ export' = <<>>]_vars

\* C5 as amended: a failing analyze() leaves store and groups as they were,
\* so export() returns what it returned before the call, which is the empty
\* sequence on a fresh backend.
C5_FailedAnalyzeChangesNothing ==
    [][(result' = "err" /\ phase' = "analyzed")
         => /\ functions' = functions
            /\ complexity_groups' = complexity_groups
            /\ export' = export
            /\ (functions = EmptyMap => export' = <<>>)]_vars

\* analyze() failed on a backend that had analysed the feed before.
C5_Witness ==
    /\ result = "err"
    /\ phase = "exported"
    /\ Len(feed) = 2
    /\ exported # <<>>

\* C6: the call-in count of a function is the number of "CALL" references of
\* the feed that target it, the counts add up to the number of "CALL"
\* references, and every called address has a record.
C6_CallInCount ==
    result = "ok" =>
      /\ \A a \in DOMAIN functions :
           /\ functions[a].x_f = CallEdgesTo(a, Len(feed))
           /\ \A i \in DOMAIN functions[a].calls :
                functions[a].calls[i] \in DOMAIN functions
      /\ SumOver([a \in DOMAIN functions |-> functions[a].x_f], DOMAIN functions)
           = SumOver([a \in Addr |-> CallEdgesTo(a, Len(feed))], Addr)

\* A function called twice by the same caller, next to a reference of
\* another kind.
C6_Witness ==
    /\ result = "ok"
    /\ \E a \in DOMAIN functions :
         /\ functions[a].x_f = 2
         /\ Len(functions[a].callers) = 2
         /\ functions[a].callers[1] = functions[a].callers[2]
    /\ \E a \in Addr : a \notin DOMAIN functions

\* C7: the sensitivity score of a function is the sum over its calls of the
\* weight of the callee's bare name fragment, where a callee with an empty
\* name or a fragment that is no key of the table adds 0.
C7_SensitivityScore ==
    result = "ok" =>
      \A a \in DOMAIN functions :
        LET calls == functions[a].calls
            weight(c) ==
                IF c \notin DOMAIN functions THEN 0
                ELSE IF functions[c].name = <<>> THEN 0
                ELSE IF BareFragment(functions[c].name) \in DOMAIN sensitive_functions
                     THEN sensitive_functions[BareFragment(functions[c].name)]
                     ELSE 0
        IN  functions[a].s_f =
              Num(SumOver([i \in DOMAIN calls |-> weight(calls[i])], DOMAIN calls), 1)

\* C8: a function without operations has an undefined memory density and an
\* undefined vulnerability score and is in no exported record.
C8_NoOperationsUndefined ==
    result = "ok" =>
      \A a \in DOMAIN functions :
        functions[a].operation_list = <<>> =>
          /\ IsNaN(functions[a].p_f)
          /\ IsNaN(functions[a].vulnerability_f)
          /\ ExportIsCurrent => a \notin ExportedAddresses

\* A function without operations, with a positive sensitivity score, in a
\* group, after export().
C8_Witness ==
    /\ result = "ok"
    /\ phase = "exported"
    /\ \E a \in DOMAIN functions :
         /\ functions[a].operation_list = <<>>
         /\ functions[a].s_f.n > 0
         /\ functions[a].complex_f > 0

\* C9: in every ranked group no member with an undefined score precedes a
\* member with a defined score, defined scores do not increase along the
\* sequence, and the members are the functions of that complexity index.
C9_RankedDescending ==
    \A c \in DOMAIN complexity_groups :
      LET members == complexity_groups[c].functions
          score(i) == functions[members[i]].vulnerability_f
      IN  /\ Members(c) = { a \in DOMAIN functions : functions[a].complex_f = c }
          /\ Cardinality(Members(c)) = Len(members)
          /\ \A i \in DOMAIN members : \A j \in DOMAIN members :
               i < j =>
                 /\ ~(IsNaN(score(i)) /\ Defined(score(j)))
                 /\ (Defined(score(i)) /\ Defined(score(j)))
                       => Leq(score(j), score(i))

\* C10: complexity index = floor(ln(cc)) + call-in count, the logarithm term
\* being 0 for cc = 0; e^1 < 3, 7 < e^2 < 8, 20 < e^3 < 21.
C10_ComplexityIndex ==
    result = "ok" =>
      \A a \in DOMAIN functions :
        LET cc == ReportedCC(a)
            term == IF cc <= 2 THEN 0
                    ELSE IF cc <= 7 THEN 1
                    ELSE IF cc <= 20 THEN 2
                    ELSE 3
        IN  /\ cc <= 54
            /\ functions[a].complex_f = term + CallEdgesTo(a, Len(feed))

\* A function of complexity 8 that calls a function that is never listed.
C10_Witness ==
    /\ result = "ok"
    /\ \E a \in DOMAIN functions : \E b \in DOMAIN functions :
         /\ functions[a].cc = 8 /\ functions[a].complex_f = 2
         /\ functions[b].cc = 0 /\ functions[b].complex_f = 1

====
